---- MODULE Spec2Model ----
(***************************************************************************)
(* The A4 grid layout of the barcode generator: generate_pdf_from_numbers  *)
(* (src/barcode_app.py, reached through POST /api/generate-pdf) and        *)
(* generate_pdf_from_excel (src/eg.py, reached through the command line).  *)
(*                                                                         *)
(* Lengths are exact integers, mm units to the millimetre; the code        *)
(* computes the same expressions in floating point, whose rounding (about  *)
(* 1e-13 points) is not modelled.  A label is the integer its text reads.  *)
(* drawImage and drawString of one label are one canvas operation: a       *)
(* failure of drawImage leaves neither.  The caption's x is not modelled.  *)
(*                                                                         *)
(* ExcelSpec is the workbook routes of src/barcode_app.py (create, upload, *)
(* update, rename) over the outputs folder, one request at a time; a       *)
(* workbook is column A of its sheet.  DashSpec is the upload, view and    *)
(* delete routes of src/app/dashboard.py with the login and logout of      *)
(* src/app/auth.py; the content of a stored file is the upload that wrote  *)
(* it.  AuthSpec is the routes of src/app/auth.py (signup, login, logout)  *)
(* with the handlers behind login_required, for one session, one request   *)
(* at a time; the answer of check_password is an input of the request.     *)
(* TempSpec is the control flow of the six functions that write through a  *)
(* temporary directory, from tempfile.mkdtemp to shutil.rmtree.  Each      *)
(* specification holds the state of the others at rest.                    *)
(***************************************************************************)
EXTENDS Integers, Sequences, FiniteSets, TLC

\* ------------------------------------------------------------------ bounds

\* Longest column A (rows 2..max_row) of a workbook, longest direct input.
MaxLen == 3
\* Image-generation and drawing failures injected into one invocation.
MaxFail == 1
\* Largest column / row count of the short inputs.
MaxDim == 2

\* ------------------------------------------------------- program constants

\* Length unit: 1 mm is this many units (reportlab's mm, in points, scaled so
\* that every fraction of a cell the code takes is a whole number).
mm == 160
\* reportlab's A4, in millimetres.
A4WidthMM == 210
A4HeightMM == 297
\* cols=4, rows=8: the defaults of both layout functions.
DefaultCols == 4
DefaultRows == 8

\* ------------------------------------------------------- Python arithmetic

Abs(a) == IF a < 0 THEN -a ELSE a

\* Python's a // b on integers (floor division), b # 0.
FloorDiv(a, b) ==
    LET n == IF b > 0 THEN a ELSE -a
        d == Abs(b)
    IN  IF n >= 0 THEN n \div d ELSE -((-n + d - 1) \div d)

\* Python's a % b on integers (the sign of the divisor), b # 0.
PyMod(a, b) == a - b * FloorDiv(a, b)

\* Python's a / b where the model's units make the quotient exact.
TrueDiv(a, b) == FloorDiv(a, b)

\* ------------------------------------------------------------ spreadsheet

\* Cell values of column A: empty, text that is no number, or an integer.
NoneCell == [kind |-> "none", v |-> 0]
TextCell == [kind |-> "text", v |-> 0]
IntCell(n) == [kind |-> "int", v |-> n]

\* Label values of the short inputs: the code reads a label's value only as
\* a dictionary key, so two values give every pattern of equal and unequal
\* labels that order and duplicates need.
Labels == {1, 2}
Cells == {NoneCell, TextCell} \cup {IntCell(n) : n \in Labels}

RECURSIVE SeqsUpTo(_, _)
SeqsUpTo(S, n) ==
    IF n = 0 THEN {<<>>}
    ELSE LET shorter == SeqsUpTo(S, n - 1)
         IN  shorter \cup {Append(s, x) : s \in {t \in shorter : Len(t) = n - 1}, x \in S}

\* The numbers read and then sorted, as upload_excel_api does with its own.
ReadNumbersSorted(column) ==
    LET ints == SelectSeq(column, LAMBDA c : c.kind = "int")
    IN  SortSeq([k \in 1..Len(ints) |-> ints[k].v], LAMBDA a, b : a < b)

\* numbers.append(str(int(cell_value))) for the cells that are not None and
\* convert; the others are skipped.  Row order is kept.
RECURSIVE ReadNumbers(_)
ReadNumbers(column) ==
    IF column = <<>> THEN <<>>
    ELSE LET cell == Head(column)
             rest == ReadNumbers(Tail(column))
         IN  IF cell.kind = "none" THEN rest
             ELSE IF cell.kind = "text" THEN rest
             ELSE <<cell.v>> \o rest

\* A column / row count as typed: an integer, or text int() rejects.
IntArg(n) == [ok |-> TRUE, v |-> n]
BadArg == [ok |-> FALSE, v |-> 0]

\* cols = int(cols); rows = int(rows); a ValueError on either sets both defaults.
ParseDims(rc, rr) ==
    IF rc.ok /\ rr.ok THEN <<rc.v, rr.v>> ELSE <<DefaultCols, DefaultRows>>

\* ----------------------------------------------------------------- state

VARIABLES
    entry,          \* "call" | "api" | "cli": how the layout is reached
    file_exists,    \* os.path.exists of the workbook
    sheet,          \* column A of the workbook, rows 2..max_row
    rawCols,        \* the column count as given
    rawRows,        \* the row count as given
    cols,
    rows,
    numbers,        \* the labels, in input order
    pc,             \* "start" | "images" | "geometry" | "layout" | "save" | "done"
    idx,            \* loop index of the running loop
    barcode_images, \* keys of the dict barcode_images
    temp_dir,       \* TRUE while the temporary directory exists
    canvas,         \* the operations sent to the PDF canvas, in order
    page_num,       \* generate_pdf_from_excel's page counter
    barcode_count,  \* generate_pdf_from_excel's count of drawn labels
    outcome,        \* "running" or how the entry point ended
    pdf_written,    \* TRUE once a PDF file is on disk
    genFail,        \* ordinals whose image generation raised
    drawFail,       \* ordinals whose drawImage raised
    run,            \* 1, or 2 for the repeated invocation
    prev,           \* what the first invocation produced
    \* the workbook routes of barcode_app.py
    outputs,        \* the outputs folder: for each file name, its workbook
    outputs_before, \* the outputs folder as the last request found it
    request,        \* the last request
    response,       \* the response to it
    served,         \* the number of requests handled
    \* the dashboard application (app/)
    current_user,   \* the id of the user logged in, 0 for nobody
    files,          \* the UploadedFile records
    disk,           \* the upload folder: for each stored name, its content
    clock,          \* the time, in ticks
    next_id,        \* the id the next UploadedFile record gets
    dash_request,   \* the last request to the dashboard
    dash_response,  \* what it was answered
    dash_before,    \* the records and the folder as that request found them
    \* the accounts and the session (app/auth.py)
    users,          \* the User records
    auth_request,   \* the last request to signup, login, logout or the home page
    auth_response,  \* what it was answered
    auth_before,    \* the accounts and the session as that request found them
    \* the functions that write workbooks through a temporary directory
    running,        \* the function running, "none" for none
    op_caller,      \* the function that called it, "none" for none
    op_pc,          \* where the function is
    op_left,        \* the numbers its loop has still to visit
    op_dir,         \* the temporary directory it made, 0 for none
    temp_dirs,      \* the temporary directories that exist
    made,           \* the temporary directories made so far
    rmtree_failed,  \* the temporary directories shutil.rmtree could not remove
    op_outcome      \* how the function left its body, then how it ended

layoutVars == <<entry, file_exists, sheet, rawCols, rawRows, cols, rows, numbers, pc, idx,
                barcode_images, temp_dir, canvas, page_num, barcode_count, outcome,
                pdf_written, genFail, drawFail, run, prev>>

excelVars == <<outputs, outputs_before, request, response, served>>

\* What a layout step leaves alone: the state of the other routes.
dashVars == <<current_user, files, disk, clock, next_id, dash_request, dash_response,
              dash_before>>

authVars == <<users, auth_request, auth_response, auth_before>>

opVars == <<running, op_caller, op_pc, op_left, op_dir, temp_dirs, made,
            rmtree_failed, op_outcome>>

outside == <<excelVars, dashVars, authVars, opVars>>

vars == <<layoutVars, excelVars, dashVars, authVars, opVars>>

inputs == <<entry, file_exists, sheet, rawCols, rawRows>>

\* ------------------------------------------------------------- geometry

page_width == A4WidthMM * mm
page_height == A4HeightMM * mm
margin_x == 12 * mm
margin_y == 15 * mm
\* The width left when only one side margin is taken off.
AvailableWidthOneMargin == page_width - margin_x
available_width == page_width - (2 * margin_x)
available_height == page_height - (2 * margin_y)
cell_width == TrueDiv(available_width, cols)
cell_height == TrueDiv(available_height, rows)

\* cell_width / cell_height raise ZeroDivisionError.
ZeroDivision == cols = 0 \/ rows = 0

Capacity == cols * rows

\* Fractions of a cell dimension: 0.05, 0.9, 0.75, 0.15.
Pad(v) == TrueDiv(v, 20)
BarcodeWidthOf(v) == TrueDiv(9 * v, 10)
BarcodeHeightOf(v) == TrueDiv(3 * v, 4)
CaptionDrop(v) == TrueDiv(3 * v, 20)

\* A row taken from the count of labels drawn so far instead of idx.
RowOfRendered(i) ==
    FloorDiv(PyMod(Cardinality({k \in 1..Len(canvas) : canvas[k].op = "draw"}), Capacity), cols)
\* A row taken by dividing by the row count.
RowOfByRows(i) == FloorDiv(PyMod(i, Capacity), rows)
\* row = (idx % (cols * rows)) // cols
RowOf(i) == FloorDiv(PyMod(i, Capacity), cols)
\* col = (idx % (cols * rows)) % cols
ColOf(i) == PyMod(PyMod(i, Capacity), cols)
\* An entry point without its `if not numbers:` return.
NoNumbersUnchecked(nums) == FALSE
\* `if not numbers:` of both entry points
NoNumbers(nums) == nums = <<>>
\* A loop that does not move on to the next label.
SameOrdinal(i) == i
\* for idx, number in enumerate(numbers): the ordinal of the next pass
NextOrdinal(i) == i + 1
\* if idx > 0 and idx % (cols * rows) == 0
PageBreakBefore(i) == i > 0 /\ PyMod(i, Capacity) = 0

\* x = margin_x + (col * cell_width) + (cell_width * 0.05)
ImageX(col) == margin_x + (col * cell_width) + Pad(cell_width)
\* y measured from the top edge, without the conversion to the canvas's
\* bottom-left origin.
ImageYFromTop(row) == margin_y + (row * cell_height) + Pad(cell_height)
\* y that puts the top edge of the image 5% of the cell height below the top
\* edge of the cell.
ImageYTopAnchored(row) ==
    page_height - margin_y - (row * cell_height) - Pad(cell_height)
        - BarcodeHeightOf(cell_height)
\* y = page_height - margin_y - ((row + 1) * cell_height) + (cell_height * 0.05)
ImageY(row) == page_height - margin_y - ((row + 1) * cell_height) + Pad(cell_height)
barcode_width == BarcodeWidthOf(cell_width)
barcode_height == BarcodeHeightOf(cell_height)
\* A caption 15% of the cell height above y.
TextYAbove(y) == y + CaptionDrop(cell_height)
\* text_y = y - (cell_height * 0.15)
TextY(y) == y - CaptionDrop(cell_height)

\* ---------------------------------------------------------------- canvas

\* c.showPage(), emitted while the loop is at ordinal i.
ShowPage(i) ==
    [op |-> "showPage", ord |-> i, label |-> 0, page |-> 0,
     row |-> 0, col |-> 0, x |-> 0, y |-> 0, w |-> 0, h |-> 0, text_y |-> 0]

\* c.drawImage(...) and c.drawString(...) of the label at ordinal i; page is
\* the physical page the canvas is on.

Draw(i, label, page, row, col) ==
    [op |-> "draw", ord |-> i, label |-> label, page |-> page,
     row |-> row, col |-> col, x |-> ImageX(col), y |-> ImageY(row),
     w |-> barcode_width, h |-> barcode_height, text_y |-> TextY(ImageY(row))]

\* The page the canvas is on: the number of showPage calls so far.
PageOf(c) == Cardinality({k \in 1..Len(c) : c[k].op = "showPage"})

\* A canvas kept at module level and used again by the next invocation.
SharedCanvas == canvas
\* canvas.Canvas(...): a new, empty canvas on its first page.
NewCanvas == <<>>
\* barcode_images = {}
NewImages == {}
\* '500' of the API's except clause; the exception itself elsewhere.
Raised(e) == IF e = "api" THEN "500" ELSE "ZeroDivisionError"

\* ------------------------------------------------------- workbook routes

\* Requests handled in one run of the workbook routes.
MaxRequests == 2
\* The largest count /api/create-excel accepts.
MaxCount == 5000

\* A file name: its stem and its extension.
XlsxName(stem) == [stem |-> stem, ext |-> ".xlsx"]
BareName(stem) == [stem |-> stem, ext |-> ""]
\* No name given: None or ''.
NoName == [stem |-> "", ext |-> ""]
FileNames == {XlsxName("a"), XlsxName("b"), BareName("b")}

\* if not new_filename.endswith(('.xlsx', '.xls')): new_filename += '.xlsx'
WithExtension(name) ==
    IF name.ext \in {".xlsx", ".xls"} THEN name
    ELSE [stem |-> name.stem, ext |-> ".xlsx"]

\* os.path.join(OUTPUT_FOLDER, name)
OutputPath(name) == [dir |-> "outputs", name |-> name]
\* The same file under another spelling of the folder.
DotPath(name) == [dir |-> "./outputs", name |-> name]
\* No path given: None or ''.
NoPath == [dir |-> "", name |-> NoName]
\* The paths a client sends: the paths the routes report, one other
\* spelling, and none.
ClientPaths ==
    {OutputPath(n) : n \in FileNames} \cup {DotPath(XlsxName("a")), NoPath}

\* A file of the outputs folder: absent, or a workbook with the cells of
\* column A, rows 1..max_row.  The other columns are not modelled.
NoFile == [exists |-> FALSE, colA |-> <<>>]
Workbook(cells) == [exists |-> TRUE, colA |-> cells]
\* os.path.exists(path)
Exists(folder, path) == path.name \in FileNames /\ folder[path.name].exists
\* ws.max_row: 1 for a sheet without cells
MaxRow(wb) == IF Len(wb.colA) = 0 THEN 1 ELSE Len(wb.colA)

\* [start_num + i for i in range(count)]
NumbersFrom(start, count) == [i \in 1..count |-> start + (i - 1)]
\* ws['A1'] = "Number"; ws[f'A{idx}'] = number for idx from 2
CreatedWorkbook(nums) ==
    Workbook(<<TextCell>> \o [i \in 1..Len(nums) |-> IntCell(nums[i])])
\* ws[f'A{next_row + i}'] = number, for next_row = ws.max_row + 1, which is
\* below every cell of the sheet: the cells the sheet has are kept, a row
\* between them and next_row is empty.
WriteRows(colA, next_row, nums) ==
    IF nums = <<>> THEN colA
    ELSE colA \o [r \in 1..((next_row - 1) - Len(colA)) |-> NoneCell]
              \o [i \in 1..Len(nums) |-> IntCell(nums[i])]

\* A count check with the lower limit only.
CountRejectedBelow(count) == count < 1
\* if count < 1 or count > 5000
CountRejected(count) == count < 1 \/ count > MaxCount

\* A target test that never finds the target taken.
TargetFree(folder, new_file_path, old_file_path) == FALSE
\* if os.path.exists(new_file_path) and new_file_path != old_file_path
TargetTaken(folder, new_file_path, old_file_path) ==
    Exists(folder, new_file_path) /\ new_file_path # old_file_path

Req(op, path, name, start, count) ==
    [op |-> op, path |-> path, name |-> name, start |-> start, count |-> count]
NoRequest == Req("none", NoPath, NoName, 0, IntArg(0))
\* jsonify({...}), code: status, HTTP code, barcodesAdded or the count of
\* numbers, and the two ends of 'range'.
Resp(status, code, added, lo, hi) ==
    [status |-> status, code |-> code, added |-> added, lo |-> lo, hi |-> hi]
Success(added, lo, hi) == Resp("success", 200, added, lo, hi)
Error(code) == Resp("error", code, 0, 0, 0)
NoResponse == Resp("none", 0, 0, 0, 0)

EmptyFolder == [n \in FileNames |-> NoFile]
\* The folder at the start: empty, or with files earlier requests left.
InitFolders ==
    {EmptyFolder,
     [EmptyFolder EXCEPT ![XlsxName("a")] = CreatedWorkbook(<<1, 2>>),
                         ![XlsxName("b")] = Workbook(<<TextCell, NoneCell, IntCell(7)>>)]}

\* The workbook routes at rest, while the layout runs.
ExcelIdle ==
    /\ outputs = EmptyFolder /\ outputs_before = EmptyFolder
    /\ request = NoRequest /\ response = NoResponse
    /\ served = 0

\* ------------------------------------------------------------ dashboard

\* Uploads accepted in one run.
MaxUploads == 2
\* The last tick of the clock.
MaxClock == 2
\* Temporary directories made in one run.
MaxDirs == 2
\* Ticks in a second: the clock is finer than the timestamp.
TicksPerSecond == 2

\* The accounts, by id; 0 stands for a request without a login.
Users == {1, 2}
Anonymous == 0

\* A file name as the browser sends it: the text before the last '.', and
\* the text after it ("" when the name has no '.').
NoFilename == [stem |-> "", ext |-> ""]
OriginalNames ==
    {[stem |-> "my data", ext |-> "csv"], [stem |-> "my_data", ext |-> "csv"],
     [stem |-> "notes", ext |-> "txt"], NoFilename}

ALLOWED_EXTENSIONS == {"csv", "xlsx", "xls"}
\* '.' in filename and filename.rsplit('.', 1)[1].lower() in ALLOWED_EXTENSIONS
allowed_file(filename) == filename.ext \in ALLOWED_EXTENSIONS
\* werkzeug's secure_filename: white space becomes '_'.
secure_filename(filename) ==
    [stem |-> IF filename.stem = "my data" THEN "my_data" ELSE filename.stem,
     ext |-> filename.ext]
\* datetime.now().strftime('%Y%m%d_%H%M%S'): the time to the second.
Timestamp(now) == now \div TicksPerSecond
\* f"{name}_{timestamp}{ext}"
StoredName(filename, timestamp) ==
    [stem |-> filename.stem, stamp |-> timestamp, ext |-> filename.ext]
StoredNames ==
    {StoredName(secure_filename(f), Timestamp(t)) :
         f \in {g \in OriginalNames : allowed_file(g)}, t \in 0..MaxClock}

\* The content of a stored file: the upload that wrote it and the user who
\* sent it; or no file.
Content(id, user_id) == [id |-> id, user_id |-> user_id]
NoContent == Content(0, 0)
\* UploadedFile(filename=..., original_filename=..., user_id=...); file_path
\* is the stored name in the upload folder.
UploadedFile(id, filename, original_filename, user_id) ==
    [id |-> id, filename |-> filename, original_filename |-> original_filename,
     user_id |-> user_id]

DashReq(op, user, filename, file_id) ==
    [op |-> op, user |-> user, filename |-> filename, file_id |-> file_id]
DashResp(result, content) == [result |-> result, content |-> content]
EmptyDisk == [n \in StoredNames |-> NoContent]

\* The dashboard at rest, while other routes run.
DashIdle ==
    /\ current_user = Anonymous
    /\ files = {} /\ disk = EmptyDisk
    /\ clock = 0 /\ next_id = 1
    /\ dash_request = DashReq("none", Anonymous, NoFilename, 0)
    /\ dash_response = DashResp("none", NoContent)
    /\ dash_before = [files |-> {}, disk |-> EmptyDisk]

\* ------------------------------------------------------------- accounts

\* The shortest password signup accepts.
MinPasswordLen == 6

\* What the signup and login forms send; "" stands for a field left out or
\* left empty.
Usernames == {"", "ann", "bob"}
Emails == {"", "ann@x", "bob@x"}
Passwords == {"", "short", "secret"}

\* User(username=username, email=email); user.set_password(password)
User(id, username, email, password) ==
    [id |-> id, username |-> username, email |-> email, password |-> password]

\* User.query.filter_by(username=username).first(), as a set
ByUsername(accounts, username) == {u \in accounts : u.username = username}
\* User.query.filter_by(email=email).first(), as a set
ByEmail(accounts, email) == {u \in accounts : u.email = email}
\* A login that asks for the account only.
AuthenticatesUnchecked(found, checked) == found # {}
\* "if user and user.check_password(password)": found is the result of the
\* query as a set, checked the answer of check_password.
Authenticates(found, checked) == found # {} /\ checked

\* The validation of signup: all fields given, the passwords equal, the
\* password long enough.
FormValid(username, email, password, confirm_password) ==
    /\ username # "" /\ email # "" /\ password # ""
    /\ password = confirm_password
    /\ Len(password) >= MinPasswordLen
\* A registration test that looks at the username only.
UsernameTaken(accounts, username, email) == ByUsername(accounts, username) # {}
\* "Username already exists" or "Email already registered"
Registered(accounts, username, email) ==
    ByUsername(accounts, username) # {} \/ ByEmail(accounts, email) # {}

\* A request to the routes of auth.py and to the home page; checked is the
\* answer check_password gives while it is served.
AuthReq(route, method, username, email, password, confirm_password, checked) ==
    [route |-> route, method |-> method, username |-> username, email |-> email,
     password |-> password, confirm_password |-> confirm_password,
     checked |-> checked]
NoAuthRequest == AuthReq("none", "GET", "", "", "", "", FALSE)
\* What the form may repeat as the password: the password or something else.
Confirmations(password) == {password, "short"}
Session(accounts, user) == [users |-> accounts, current_user |-> user]

\* The accounts at rest, while other routes run.
AuthIdle ==
    /\ users = {}
    /\ auth_request = NoAuthRequest
    /\ auth_response = "none"
    /\ auth_before = Session({}, Anonymous)

\* --------------------------------------------------- temporary directories

\* The functions that make a temporary directory.
InBarcodeApp ==
    {"create_excel_with_barcodes", "generate_pdf_from_numbers", "update_excel_api"}
InEg ==
    {"generate_pdf_from_excel", "generate_barcodes_from_sheet",
     "generate_barcodes_excel"}
Functions == InBarcodeApp \cup InEg

\* The functions that can return before they make the directory: the file
\* is not there (404, "file not found"), the sheet holds no number.
ReturnsEarly(f) == f \in {"update_excel_api", "generate_pdf_from_excel"}
\* The functions that can raise before they make the directory: int() of
\* the request, openpyxl.load_workbook.
RaisesEarly(f) ==
    f \in {"update_excel_api", "generate_pdf_from_excel",
           "generate_barcodes_from_sheet"}
\* The function with a return inside its try: no row needs a barcode.
ReturnsInTry(f) == f = "generate_barcodes_from_sheet"
\* The functions that catch what shutil.rmtree raises ("Could not clean
\* temp folder") and go on.
CatchesRmtreeError(f) == f \in InEg

\* A try whose finally runs after a return only.
LeavesToFinallyOnReturn(how) == IF how = "exception" THEN "exit" ELSE "finally"
\* try ... finally: where control goes when the body is left, by a return
\* or by an exception.
Leaves(how) == "finally"

\* The functions that make a temporary directory at rest.
OpIdle ==
    /\ running = "none" /\ op_caller = "none"
    /\ op_pc = "idle" /\ op_left = 0
    /\ op_dir = 0 /\ temp_dirs = {} /\ made = 0
    /\ rmtree_failed = {}
    /\ op_outcome = "none"

\* ------------------------------------------------------------------ Init

\* Column and row counts as given: every valid pair up to MaxDim, and pairs
\* with a zero or a negative count.
ValidDims == (1..MaxDim) \X (1..MaxDim)
InvalidDims == {<<0, 1>>, <<2, 0>>, <<0 - 1, 0 - 1>>, <<0 - 1, 2>>, <<2, 0 - 1>>}
DimArgs == {<<IntArg(d[1]), IntArg(d[2])>> : d \in ValidDims \cup InvalidDims}
\* The API is tried on every workbook with one valid, one zero and one
\* negative geometry; the layout it calls is tried on every geometry of
\* DimArgs through the direct call.
ApiDimArgs == {<<IntArg(d[1]), IntArg(d[2])>> : d \in {<<2, 1>>, <<0, 1>>, <<0 - 1, 0 - 1>>}}
\* The command line is tried on every geometry, and on text int() rejects,
\* with the workbooks that hold numbers only and three that do not.
CliSheets ==
    {[k \in 1..Len(s) |-> IntCell(s[k])] : s \in SeqsUpTo(Labels, MaxLen)}
        \cup {<<NoneCell>>, <<TextCell, IntCell(2)>>, <<IntCell(1), NoneCell, IntCell(1)>>}
\* The long input: consecutive numbers, as create_excel_api writes them, a
\* few more than one page of the default grid holds.
ExampleLen == (DefaultCols * DefaultRows) + MaxLen
ExampleNumbers == [k \in 1..ExampleLen |-> k]

Locals0 ==
    /\ cols = 0 /\ rows = 0
    /\ pc = "start" /\ idx = 0
    /\ barcode_images = {} /\ temp_dir = FALSE
    /\ canvas = <<>> /\ page_num = 0 /\ barcode_count = 0
    /\ outcome = "running" /\ pdf_written = FALSE
    /\ genFail = {} /\ drawFail = {}

NoPrev == [canvas |-> <<>>, outcome |-> "none", pdf_written |-> FALSE,
           genFail |-> {}, drawFail |-> {}]

InitCall ==
    /\ entry = "call"
    /\ file_exists = FALSE /\ sheet = <<>>
    /\ \/ /\ numbers \in SeqsUpTo(Labels, MaxLen)
          /\ (\E d \in DimArgs : rawCols = d[1] /\ rawRows = d[2])
       \/ /\ numbers = ExampleNumbers
          /\ rawCols = IntArg(DefaultCols) /\ rawRows = IntArg(DefaultRows)

InitApi ==
    /\ entry = "api"
    /\ numbers = <<>>
    /\ (\E d \in ApiDimArgs : rawCols = d[1] /\ rawRows = d[2])
    /\ \/ file_exists = TRUE /\ sheet \in SeqsUpTo(Cells, MaxLen)
       \/ file_exists = FALSE /\ sheet = <<>>

InitCli ==
    /\ entry = "cli"
    /\ numbers = <<>>
    /\ \/ (\E d \in DimArgs : rawCols = d[1] /\ rawRows = d[2])
       \/ rawCols = BadArg /\ rawRows = IntArg(1)
    /\ \/ file_exists = TRUE /\ sheet \in CliSheets
       \/ file_exists = FALSE /\ sheet = <<>>

\* The layout at rest, while other routes run.
LayoutIdle ==
    /\ entry = "none" /\ file_exists = FALSE /\ sheet = <<>>
    /\ rawCols = IntArg(DefaultCols) /\ rawRows = IntArg(DefaultRows)
    /\ cols = 0 /\ rows = 0 /\ numbers = <<>>
    /\ pc = "idle" /\ idx = 0
    /\ barcode_images = {} /\ temp_dir = FALSE
    /\ canvas = <<>> /\ page_num = 0 /\ barcode_count = 0
    /\ outcome = "none" /\ pdf_written = FALSE
    /\ genFail = {} /\ drawFail = {}
    /\ run = 1 /\ prev = NoPrev

Init ==
    /\ InitCall \/ InitApi \/ InitCli
    /\ Locals0
    /\ ExcelIdle
    /\ DashIdle
    /\ AuthIdle
    /\ OpIdle
    /\ run = 1 /\ prev = NoPrev

\* --------------------------------------------------------------- actions

\* The failures of this invocation so far.
Fails == Cardinality(genFail) + Cardinality(drawFail)

\* Where failures are injected: anywhere in a short input; in the long one
\* from the last slot of the first page on.
FailureSites ==
    IF Len(numbers) <= MaxLen THEN 0..Len(numbers) ELSE (Capacity - 1)..Len(numbers)

\* Whether an external step may fail at ordinal i: within the failure
\* budget, and in the repeated invocation exactly where the first one did.
MayFail(i, before) ==
    IF run = 1 THEN Fails < MaxFail /\ i \in FailureSites ELSE i \in before
MaySucceed(i, before) == run = 1 \/ i \notin before

Ended(how, written) ==
    /\ pc' = "done"
    /\ outcome' = how
    /\ pdf_written' = written

\* generate_pdf_from_numbers called directly: temp_dir = tempfile.mkdtemp(...)
CallStart ==
    /\ pc = "start" /\ entry = "call"
    /\ cols' = rawCols.v /\ rows' = rawRows.v
    /\ temp_dir' = TRUE
    /\ barcode_images' = NewImages
    /\ pc' = "images" /\ idx' = 0
    /\ UNCHANGED <<inputs, outside, numbers, canvas, page_num, barcode_count, outcome,
                   pdf_written, genFail, drawFail, run, prev>>

\* POST /api/generate-pdf up to its call of generate_pdf_from_numbers.
ApiStart ==
    /\ pc = "start" /\ entry = "api"
    /\ cols' = rawCols.v /\ rows' = rawRows.v
    /\ IF ~file_exists
       THEN /\ Ended("404", FALSE)
            /\ UNCHANGED <<numbers, temp_dir, barcode_images, idx>>
       ELSE /\ numbers' = ReadNumbers(sheet)
            /\ IF NoNumbers(ReadNumbers(sheet))
               THEN /\ Ended("400", FALSE)
                    /\ UNCHANGED <<temp_dir, barcode_images, idx>>
               ELSE /\ temp_dir' = TRUE
                    /\ barcode_images' = NewImages
                    /\ pc' = "images" /\ idx' = 0
                    /\ UNCHANGED <<outcome, pdf_written>>
    /\ UNCHANGED <<inputs, outside, canvas, page_num, barcode_count, genFail, drawFail,
                   run, prev>>

\* Choice 3 of the command line, and generate_pdf_from_excel up to its
\* image loop.
CliStart ==
    /\ pc = "start" /\ entry = "cli"
    /\ cols' = ParseDims(rawCols, rawRows)[1]
    /\ rows' = ParseDims(rawCols, rawRows)[2]
    /\ IF ~file_exists
       THEN /\ Ended("file not found", FALSE)
            /\ UNCHANGED <<numbers, temp_dir, barcode_images, idx>>
       ELSE /\ numbers' = ReadNumbers(sheet)
            /\ IF NoNumbers(ReadNumbers(sheet))
               THEN /\ Ended("no numbers", FALSE)
                    /\ UNCHANGED <<temp_dir, barcode_images, idx>>
               ELSE /\ temp_dir' = TRUE
                    /\ barcode_images' = NewImages
                    /\ pc' = "images" /\ idx' = 0
                    /\ UNCHANGED <<outcome, pdf_written>>
    /\ UNCHANGED <<inputs, outside, canvas, page_num, barcode_count, genFail, drawFail,
                   run, prev>>

\* One pass of the image loop: generate_barcode_image and save, or the
\* except clause that drops the label.
GenerateImage ==
    /\ pc = "images" /\ idx < Len(numbers)
    /\ \/ /\ MaySucceed(idx, prev.genFail)
          /\ barcode_images' = barcode_images \cup {numbers[idx + 1]}
          /\ genFail' = genFail
       \/ /\ MayFail(idx, prev.genFail)
          /\ barcode_images' = barcode_images
          /\ genFail' = genFail \cup {idx}
    /\ idx' = NextOrdinal(idx)
    /\ UNCHANGED <<inputs, outside, cols, rows, numbers, pc, temp_dir, canvas, page_num,
                   barcode_count, outcome, pdf_written, drawFail, run, prev>>

\* The canvas and the cell size; a zero column or row count raises, and the
\* finally clause removes the temporary directory.
OpenCanvas ==
    /\ pc = "images" /\ idx = Len(numbers)
    /\ canvas' = NewCanvas
    /\ IF ZeroDivision
       THEN /\ Ended(Raised(entry), FALSE)
            /\ temp_dir' = FALSE
            /\ UNCHANGED <<idx, page_num, barcode_count>>
       ELSE /\ pc' = "layout" /\ idx' = 0
            /\ page_num' = IF entry = "cli" THEN 1 ELSE page_num
            /\ barcode_count' = 0
            /\ UNCHANGED <<temp_dir, outcome, pdf_written>>
    /\ UNCHANGED <<inputs, outside, cols, rows, numbers, barcode_images, genFail,
                   drawFail, run, prev>>

\* One pass of the layout loop of generate_pdf_from_numbers.
PlaceLabel ==
    /\ pc = "layout" /\ idx < Len(numbers) /\ entry # "cli"
    /\ LET number == numbers[idx + 1]
           turned == IF PageBreakBefore(idx)
                     THEN Append(canvas, ShowPage(idx)) ELSE canvas
           row == IF PageBreakBefore(idx) THEN 0 ELSE RowOf(idx)
           col == IF PageBreakBefore(idx) THEN 0 ELSE ColOf(idx)
       IN  IF number \notin barcode_images
           THEN UNCHANGED <<canvas, drawFail>>
           ELSE \/ /\ MaySucceed(idx, prev.drawFail)
                   /\ canvas' = Append(turned, Draw(idx, number, PageOf(turned), row, col))
                   /\ drawFail' = drawFail
                \/ /\ MayFail(idx, prev.drawFail)
                   /\ canvas' = turned
                   /\ drawFail' = drawFail \cup {idx}
    /\ idx' = NextOrdinal(idx)
    /\ UNCHANGED <<inputs, outside, cols, rows, numbers, pc, barcode_images, temp_dir,
                   page_num, barcode_count, outcome, pdf_written, genFail, run, prev>>

\* One pass of the layout loop of generate_pdf_from_excel.
ExcelPlaceLabel ==
    /\ pc = "layout" /\ idx < Len(numbers) /\ entry = "cli"
    /\ LET number == numbers[idx + 1]
           turned == IF PageBreakBefore(idx)
                     THEN Append(canvas, ShowPage(idx)) ELSE canvas
           row == IF PageBreakBefore(idx) THEN 0 ELSE RowOf(idx)
           col == IF PageBreakBefore(idx) THEN 0 ELSE ColOf(idx)
       IN  IF number \notin barcode_images
           THEN UNCHANGED <<canvas, drawFail, page_num, barcode_count>>
           ELSE /\ page_num' = IF PageBreakBefore(idx) THEN page_num + 1 ELSE page_num
                /\ \/ /\ MaySucceed(idx, prev.drawFail)
                      /\ canvas' = Append(turned, Draw(idx, number, PageOf(turned), row, col))
                      /\ barcode_count' = barcode_count + 1
                      /\ drawFail' = drawFail
                   \/ /\ MayFail(idx, prev.drawFail)
                      /\ canvas' = turned
                      /\ barcode_count' = barcode_count
                      /\ drawFail' = drawFail \cup {idx}
    /\ idx' = NextOrdinal(idx)
    /\ UNCHANGED <<inputs, outside, cols, rows, numbers, pc, barcode_images, temp_dir,
                   outcome, pdf_written, genFail, run, prev>>

\* c.save(), the return, the finally clause, and for the API the write of
\* the PDF to the outputs folder.
Save ==
    /\ pc = "layout" /\ idx = Len(numbers)
    /\ Ended(IF entry = "api" THEN "200" ELSE "returned", entry # "call")
    /\ temp_dir' = FALSE
    /\ UNCHANGED <<inputs, outside, cols, rows, numbers, idx, barcode_images, canvas,
                   page_num, barcode_count, genFail, drawFail, run, prev>>

\* generate_pdf_from_numbers, or the API in front of it, invoked again with
\* the same input, the external steps failing where they failed before.
\* What the first invocation left in its locals is still there: only the
\* code's own initialisations reset it.
Reinvoke ==
    /\ pc = "done" /\ run = 1 /\ entry # "cli"
    /\ run' = 2
    /\ prev' = [canvas |-> canvas, outcome |-> outcome, pdf_written |-> pdf_written,
                genFail |-> genFail, drawFail |-> drawFail]
    /\ pc' = "start"
    /\ outcome' = "running" /\ pdf_written' = FALSE
    /\ genFail' = {} /\ drawFail' = {}
    /\ UNCHANGED <<inputs, outside, cols, rows, numbers, idx, barcode_images, temp_dir,
                   canvas, page_num, barcode_count>>

Next ==
    \/ CallStart
    \/ ApiStart
    \/ CliStart
    \/ GenerateImage
    \/ OpenCanvas
    \/ PlaceLabel
    \/ ExcelPlaceLabel
    \/ Save
    \/ Reinvoke

Spec == Init /\ [][Next]_vars

\* The program is sequential and nothing blocks it: a step that can be
\* taken is taken.
FairSpec == Spec /\ WF_vars(Next)

\* ------------------------------------------- actions: the workbook routes

\* First numbers a client asks for.
Starts == {1, 3}
\* What is sent to /api/create-excel: file name, first number and count.
\* Counts around the lower limit and text int() rejects come with every
\* name and first number, counts around the upper limit with one.
CreateArgs ==
    ({XlsxName("a"), XlsxName("b")} \X Starts
         \X ({IntArg(c) : c \in {0 - 1, 0, 1, 2}} \cup {BadArg}))
        \cup {<<XlsxName("a"), 1, IntArg(MaxCount)>>,
              <<XlsxName("a"), 1, IntArg(MaxCount + 1)>>}
\* First numbers sent to /api/update-excel.
NewStarts == {7}
\* Counts sent to /api/update-excel, which has no limits.
UpdateCounts == {IntArg(c) : c \in {0 - 1, 0, 1, 2}} \cup {BadArg}
\* Column A of the workbooks a client uploads.
UploadSheets ==
    {<<>>, <<TextCell, IntCell(2), IntCell(1)>>, <<TextCell, NoneCell>>}

RECURSIVE SeqMin(_)
SeqMin(q) ==
    IF Len(q) = 1 THEN q[1]
    ELSE IF q[1] < SeqMin(Tail(q)) THEN q[1] ELSE SeqMin(Tail(q))
RECURSIVE SeqMax(_)
SeqMax(q) ==
    IF Len(q) = 1 THEN q[1]
    ELSE IF q[1] > SeqMax(Tail(q)) THEN q[1] ELSE SeqMax(Tail(q))

\* os.rename(old_file_path, new_file_path): the target gets the source's
\* content, replacing what it had, and the source is gone; onto itself it
\* does nothing.
Renamed(folder, old_file_path, new_file_path) ==
    IF old_file_path.name = new_file_path.name THEN folder
    ELSE [n \in FileNames |->
              IF n = new_file_path.name THEN folder[old_file_path.name]
              ELSE IF n = old_file_path.name THEN NoFile
              ELSE folder[n]]

\* One request handled: it found the folder as it was and leaves it as
\* folder.
Handled(req, resp, folder) ==
    /\ request' = req
    /\ response' = resp
    /\ outputs_before' = outputs
    /\ outputs' = folder
    /\ served' = served + 1
    /\ UNCHANGED <<layoutVars, dashVars, authVars, opVars>>

\* POST /api/create-excel with create_excel_with_barcodes.  A barcode that
\* fails to render changes columns B and C only.
CreateExcel ==
    /\ served < MaxRequests
    /\ \E args \in CreateArgs :
           LET name == args[1]
               start == args[2]
               count == args[3]
               req == Req("create", NoPath, name, start, count)
           IN  IF ~count.ok THEN Handled(req, Error(500), outputs)
               ELSE IF CountRejected(count.v) THEN Handled(req, Error(400), outputs)
               ELSE Handled(req, Success(count.v, start, start + count.v - 1),
                            [outputs EXCEPT
                                 ![name] = CreatedWorkbook(NumbersFrom(start, count.v))])

\* POST /api/upload-excel: the file is saved before it is analysed.
UploadExcel ==
    /\ served < MaxRequests
    /\ \E name \in {XlsxName("b"), NoName}, cells \in UploadSheets :
           LET req == Req("upload", NoPath, name, 0, IntArg(0))
               nums == ReadNumbers(SubSeq(cells, 2, Len(cells)))
           IN  IF name = NoName THEN Handled(req, Error(400), outputs)
               ELSE IF NoNumbers(nums)
               THEN Handled(req, Error(400), [outputs EXCEPT ![name] = Workbook(cells)])
               ELSE Handled(req, Success(Len(nums), SeqMin(nums), SeqMax(nums)),
                            [outputs EXCEPT ![name] = Workbook(cells)])

\* POST /api/update-excel.  Each pass of its loop writes column A and then
\* renders the barcode, which adds to barcodes_added or fails.
UpdateExcel ==
    /\ served < MaxRequests
    /\ \E file_path \in ClientPaths, new_start_num \in NewStarts, count \in UpdateCounts :
           LET req == Req("update", file_path, NoName, new_start_num, count)
           IN  IF ~count.ok \/ file_path = NoPath THEN Handled(req, Error(500), outputs)
               ELSE IF ~Exists(outputs, file_path) THEN Handled(req, Error(404), outputs)
               ELSE LET wb == outputs[file_path.name]
                        next_row == MaxRow(wb) + 1
                        nums == NumbersFrom(new_start_num, count.v)
                    IN  \E failed \in SUBSET (1..Len(nums)) :
                            Handled(req,
                                    Success(Len(nums) - Cardinality(failed), new_start_num,
                                            new_start_num + count.v - 1),
                                    [outputs EXCEPT ![file_path.name] =
                                         Workbook(WriteRows(wb.colA, next_row, nums))])

\* POST /api/rename-and-download
RenameAndDownload ==
    /\ served < MaxRequests
    /\ \E old_file_path \in ClientPaths, new_filename \in FileNames \cup {NoName} :
           LET req == Req("rename", old_file_path, new_filename, 0, IntArg(0))
               new_file_path == OutputPath(WithExtension(new_filename))
           IN  IF old_file_path = NoPath \/ new_filename = NoName
               THEN Handled(req, Error(400), outputs)
               ELSE IF ~Exists(outputs, old_file_path) THEN Handled(req, Error(404), outputs)
               ELSE IF TargetTaken(outputs, new_file_path, old_file_path)
               THEN Handled(req, Error(400), outputs)
               ELSE IF old_file_path # new_file_path
               THEN Handled(req, Success(0, 0, 0),
                            Renamed(outputs, old_file_path, new_file_path))
               ELSE Handled(req, Success(0, 0, 0), outputs)

ExcelInit ==
    /\ LayoutIdle
    /\ DashIdle
    /\ AuthIdle
    /\ OpIdle
    /\ outputs \in InitFolders
    /\ outputs_before = outputs
    /\ request = NoRequest /\ response = NoResponse
    /\ served = 0

ExcelNext ==
    \/ CreateExcel
    \/ UploadExcel
    \/ UpdateExcel
    \/ RenameAndDownload

ExcelSpec == ExcelInit /\ [][ExcelNext]_vars

\* ------------------------------------------------ actions: the dashboard

\* One request to the dashboard answered: it found the records and the
\* folder as they were and leaves them as given.
Answered(req, resp, records, folder) ==
    /\ dash_request' = req
    /\ dash_response' = resp
    /\ dash_before' = [files |-> files, disk |-> disk]
    /\ files' = records
    /\ disk' = folder

\* Time passes.
Tick ==
    /\ clock < MaxClock
    /\ clock' = clock + 1
    /\ UNCHANGED <<layoutVars, excelVars, authVars, opVars, current_user, files, disk, next_id,
                   dash_request, dash_response, dash_before>>

\* POST /login with the name and password of an account: login_user(user).
Login ==
    /\ current_user = Anonymous
    /\ \E u \in Users : current_user' = u
    /\ UNCHANGED <<layoutVars, excelVars, authVars, opVars, files, disk, clock, next_id,
                   dash_request, dash_response, dash_before>>

\* GET /logout: logout_user().
Logout ==
    /\ current_user # Anonymous
    /\ current_user' = Anonymous
    /\ UNCHANGED <<layoutVars, excelVars, authVars, opVars, files, disk, clock, next_id,
                   dash_request, dash_response, dash_before>>

\* The record with the id, as a set: UploadedFile.query.get_or_404(file_id)
Found(file_id) == {f \in files : f.id = file_id}

\* POST /upload
UploadFile ==
    /\ next_id <= MaxUploads
    /\ \E file \in OriginalNames :
           LET req == DashReq("upload", current_user, file, 0)
               filename == StoredName(secure_filename(file), Timestamp(clock))
               content == Content(next_id, current_user)
           IN  IF current_user = Anonymous
               THEN /\ Answered(req, DashResp("login", NoContent), files, disk)
                    /\ UNCHANGED next_id
               ELSE IF file = NoFilename \/ ~allowed_file(file)
               THEN /\ Answered(req, DashResp("rejected", NoContent), files, disk)
                    /\ UNCHANGED next_id
               ELSE /\ Answered(req, DashResp("uploaded", content),
                                files \cup {UploadedFile(next_id, filename, file, current_user)},
                                [disk EXCEPT ![filename] = content])
                    /\ next_id' = next_id + 1
    /\ UNCHANGED <<layoutVars, excelVars, authVars, opVars, current_user, clock>>

\* GET /dashboard/<file_id>
ViewDashboard ==
    /\ \E file_id \in 1..MaxUploads :
           LET req == DashReq("view", current_user, NoFilename, file_id)
               resp == IF current_user = Anonymous THEN DashResp("login", NoContent)
                       ELSE IF Found(file_id) = {} THEN DashResp("404", NoContent)
                       ELSE LET file == CHOOSE f \in Found(file_id) : TRUE
                            IN  IF file.user_id # current_user
                                THEN DashResp("denied", NoContent)
                                ELSE IF disk[file.filename] = NoContent
                                THEN DashResp("failed", NoContent)
                                ELSE DashResp("rendered", disk[file.filename])
           IN  Answered(req, resp, files, disk)
    /\ UNCHANGED <<layoutVars, excelVars, authVars, opVars, current_user, clock, next_id>>

\* POST /delete/<file_id>
DeleteFile ==
    /\ \E file_id \in 1..MaxUploads :
           LET req == DashReq("delete", current_user, NoFilename, file_id)
           IN  IF current_user = Anonymous
               THEN Answered(req, DashResp("login", NoContent), files, disk)
               ELSE IF Found(file_id) = {}
               THEN Answered(req, DashResp("404", NoContent), files, disk)
               ELSE LET file == CHOOSE f \in Found(file_id) : TRUE
                    IN  IF file.user_id # current_user
                        THEN Answered(req, DashResp("denied", NoContent), files, disk)
                        ELSE Answered(req, DashResp("deleted", NoContent),
                                      files \ {file},
                                      [disk EXCEPT ![file.filename] = NoContent])
    /\ UNCHANGED <<layoutVars, excelVars, authVars, opVars, current_user, clock, next_id>>

DashInit ==
    /\ LayoutIdle
    /\ ExcelIdle
    /\ DashIdle
    /\ AuthIdle
    /\ OpIdle

DashNext ==
    \/ Tick
    \/ Login
    \/ Logout
    \/ UploadFile
    \/ ViewDashboard
    \/ DeleteFile

DashSpec == DashInit /\ [][DashNext]_vars

\* ------------------------------------------------- actions: the accounts

\* One request to auth.py or to the home page answered: it found the
\* accounts and the session as they were and leaves them as given.
AuthAnswered(req, resp, accounts, user) ==
    /\ auth_request' = req
    /\ auth_response' = resp
    /\ auth_before' = Session(users, current_user)
    /\ users' = accounts
    /\ current_user' = user
    /\ UNCHANGED <<layoutVars, excelVars, opVars, files, disk, clock, next_id,
                   dash_request, dash_response, dash_before>>

\* GET /
index ==
    LET req == AuthReq("index", "GET", "", "", "", "", FALSE)
    IN  IF current_user # Anonymous
        THEN AuthAnswered(req, "dashboard", users, current_user)
        ELSE AuthAnswered(req, "login", users, current_user)

\* GET and POST /signup
signup ==
    \E method \in {"GET", "POST"}, username \in Usernames, email \in Emails,
       password \in Passwords :
        \E confirm_password \in Confirmations(password) :
            LET req == AuthReq("signup", method, username, email, password,
                               confirm_password, FALSE)
                user == User(Cardinality(users) + 1, username, email, password)
            IN  /\ method = "GET" =>
                       username = "" /\ email = "" /\ password = ""
                       /\ confirm_password = ""
                /\ IF current_user # Anonymous
                   THEN AuthAnswered(req, "dashboard", users, current_user)
                   ELSE IF method # "POST"
                   THEN AuthAnswered(req, "signup.html", users, current_user)
                   ELSE IF ~FormValid(username, email, password, confirm_password)
                   THEN AuthAnswered(req, "signup.html", users, current_user)
                   ELSE IF Registered(users, username, email)
                   THEN AuthAnswered(req, "signup.html", users, current_user)
                   ELSE AuthAnswered(req, "login", users \cup {user}, current_user)

\* GET and POST /login
login ==
    \E method \in {"GET", "POST"}, username \in Usernames, password \in Passwords,
       checked \in BOOLEAN :
        LET req == AuthReq("login", method, username, "", password, "", checked)
            found == ByUsername(users, username)
        IN  /\ method = "GET" => username = "" /\ password = ""
            /\ (method = "GET" \/ username = "" \/ password = "" \/ found = {})
                   => ~checked
            /\ IF current_user # Anonymous
               THEN AuthAnswered(req, "dashboard", users, current_user)
               ELSE IF method # "POST"
               THEN AuthAnswered(req, "login.html", users, current_user)
               ELSE IF username = "" \/ password = ""
               THEN AuthAnswered(req, "login.html", users, current_user)
               ELSE IF Authenticates(found, checked)
               THEN AuthAnswered(req, "dashboard", users,
                                 (CHOOSE u \in found : TRUE).id)
               ELSE AuthAnswered(req, "login.html", users, current_user)

\* GET /logout, behind login_required
logout ==
    LET req == AuthReq("logout", "GET", "", "", "", "", FALSE)
    IN  IF current_user = Anonymous
        THEN AuthAnswered(req, "unauthorized", users, current_user)
        ELSE AuthAnswered(req, "login", users, Anonymous)

\* GET /dashboard, behind login_required
dashboard_home ==
    LET req == AuthReq("dashboard_home", "GET", "", "", "", "", FALSE)
    IN  IF current_user = Anonymous
        THEN AuthAnswered(req, "unauthorized", users, current_user)
        ELSE AuthAnswered(req, "home.html", users, current_user)

\* The handlers of dashboard.py as the session meets them: one file, one
\* upload.
OneFile == [stem |-> "my data", ext |-> "csv"]
upload_file == UploadFile /\ next_id = 1 /\ dash_request'.filename = OneFile
view_dashboard == ViewDashboard /\ dash_request'.file_id = 1
delete_file == DeleteFile /\ dash_request'.file_id = 1

AuthInit ==
    /\ LayoutIdle
    /\ ExcelIdle
    /\ DashIdle
    /\ AuthIdle
    /\ OpIdle

AuthNext ==
    \/ index
    \/ signup
    \/ login
    \/ logout
    \/ dashboard_home
    \/ upload_file
    \/ view_dashboard
    \/ delete_file

AuthSpec == AuthInit /\ [][AuthNext]_vars

\* ------------------------------------ actions: the temporary directories

\* A step of a function that makes a temporary directory: nothing else
\* moves.
OpStep == UNCHANGED <<layoutVars, excelVars, dashVars, authVars>>

\* One of the functions is called with MaxLen numbers at most.
Call ==
    /\ running = "none" /\ made < MaxDirs
    /\ \E f \in Functions, n \in 0..MaxLen :
           /\ running' = f
           /\ op_left' = n
    /\ op_pc' = "start"
    /\ op_dir' = 0
    /\ op_outcome' = "none"
    /\ UNCHANGED <<op_caller, temp_dirs, made, rmtree_failed>>
    /\ OpStep

\* The function ends before tempfile.mkdtemp, by a return or an exception.
EndsEarly ==
    /\ op_pc = "start"
    /\ \/ ReturnsEarly(running) /\ op_outcome' = "return"
       \/ RaisesEarly(running) /\ op_outcome' = "exception"
    /\ op_pc' = "exit"
    /\ UNCHANGED <<running, op_caller, op_left, op_dir, temp_dirs, made,
                   rmtree_failed>>
    /\ OpStep

\* generate_barcodes_from_sheet does not find its input and calls
\* generate_barcodes_excel with the default numbers.
CallsGenerateBarcodesExcel ==
    /\ op_pc = "start"
    /\ running = "generate_barcodes_from_sheet" /\ op_caller = "none"
    /\ running' = "generate_barcodes_excel"
    /\ op_caller' = running
    /\ \E n \in 0..MaxLen : op_left' = n
    /\ UNCHANGED <<op_pc, op_dir, temp_dirs, made, rmtree_failed, op_outcome>>
    /\ OpStep

\* temp_dir = tempfile.mkdtemp(...)
Mkdtemp ==
    /\ op_pc = "start"
    /\ op_dir' = made + 1
    /\ made' = made + 1
    /\ temp_dirs' = temp_dirs \cup {made + 1}
    /\ op_pc' = "try"
    /\ UNCHANGED <<running, op_caller, op_left, rmtree_failed, op_outcome>>
    /\ OpStep

\* One number of the loop: its image is written into the directory, or the
\* exception of that is caught and the loop goes on.
NextNumber ==
    /\ op_pc = "try" /\ op_left > 0
    /\ op_left' = op_left - 1
    /\ UNCHANGED <<running, op_caller, op_pc, op_dir, temp_dirs, made,
                   rmtree_failed, op_outcome>>
    /\ OpStep

\* The body is left: by the return at its end, by the return of
\* generate_barcodes_from_sheet when no row needs a barcode, or by an
\* exception nothing in the body catches (wb.save, c.save, a division).
LeavesBody ==
    /\ op_pc = "try"
    /\ \E how \in {"return", "exception"} :
           /\ how = "return" => op_left = 0 \/ ReturnsInTry(running)
           /\ op_outcome' = how
           /\ op_pc' = Leaves(how)
    /\ UNCHANGED <<running, op_caller, op_left, op_dir, temp_dirs, made,
                   rmtree_failed>>
    /\ OpStep

\* finally: if os.path.exists(temp_dir): shutil.rmtree(temp_dir)
Finally ==
    /\ op_pc = "finally"
    /\ \/ /\ temp_dirs' = temp_dirs \ {op_dir}
          /\ UNCHANGED <<rmtree_failed, op_outcome>>
       \/ /\ Cardinality(rmtree_failed) < MaxFail
          /\ rmtree_failed' = rmtree_failed \cup {op_dir}
          /\ op_outcome' = IF CatchesRmtreeError(running) THEN op_outcome
                           ELSE "exception"
          /\ UNCHANGED temp_dirs
    /\ op_pc' = "exit"
    /\ UNCHANGED <<running, op_caller, op_left, op_dir, made>>
    /\ OpStep

\* The function has finished: its caller goes on (generate_barcodes_from_sheet
\* returns after the call, or the exception passes through it), or no
\* function runs any more.
Exit ==
    /\ op_pc = "exit"
    /\ IF op_caller # "none"
       THEN /\ running' = op_caller
            /\ op_caller' = "none"
            /\ UNCHANGED op_pc
       ELSE /\ running' = "none"
            /\ op_pc' = "idle"
            /\ UNCHANGED op_caller
    /\ op_dir' = 0
    /\ UNCHANGED <<op_left, temp_dirs, made, rmtree_failed, op_outcome>>
    /\ OpStep

TempInit ==
    /\ LayoutIdle
    /\ ExcelIdle
    /\ DashIdle
    /\ AuthIdle
    /\ OpIdle

TempNext ==
    \/ Call
    \/ EndsEarly
    \/ CallsGenerateBarcodesExcel
    \/ Mkdtemp
    \/ NextNumber
    \/ LeavesBody
    \/ Finally
    \/ Exit

TempSpec == TempInit /\ [][TempNext]_vars

\* ------------------------------------------------------- claims: helpers

ValidGeometry == cols >= 1 /\ rows >= 1
Done == pc = "done"
Succeeded == Done /\ outcome \in {"200", "returned"}
DrawIdx == {k \in 1..Len(canvas) : canvas[k].op = "draw"}
BreakIdx == {k \in 1..Len(canvas) : canvas[k].op = "showPage"}
DrawnOrds == {canvas[k].ord : k \in DrawIdx}
\* ceil(n / c) for c >= 1
CeilDiv(n, c) == (n + c - 1) \div c
SlotOf(d) == (d.row * cols) + d.col

\* ------------------------------------------------------------------ C1

\* C1 (as claimed): in the layout loop a page break is emitted exactly
\* before each ordinal i > 0 with i mod capacity = 0 that the loop has
\* reached, and every label drawn is on physical page i div capacity,
\* whatever labels failed to generate (drawImage itself not failing).
C1_PageBreakAtEveryBoundary ==
    (ValidGeometry /\ pc = "layout" /\ drawFail = {}) =>
        /\ \A i \in 1..(idx - 1) :
               (i % Capacity = 0) <=> (\E k \in BreakIdx : canvas[k].ord = i)
        /\ \A k \in DrawIdx : canvas[k].page = canvas[k].ord \div Capacity

\* ------------------------------------------------------------------ C2

\* C2: every label drawn at ordinal i, with slot = i mod (cols*rows), is at
\* row = slot div cols and col = slot mod cols, whatever its value; with
\* cols=4, rows=8 the label at ordinal 32 is at row 0, col 0.
C2_RowColFromSlot ==
    ValidGeometry =>
        \A k \in DrawIdx :
            LET d == canvas[k]
                slot == d.ord % (cols * rows)
            IN  /\ d.row = slot \div cols
                /\ d.col = slot % cols
                /\ (cols = 4 /\ rows = 8 /\ d.ord = 32) => (d.row = 0 /\ d.col = 0)

C2_Witness ==
    /\ Done /\ cols = 4 /\ rows = 8 /\ Len(numbers) > 32
    /\ \E k \in DrawIdx : canvas[k].ord = 32 /\ canvas[k].row = 0 /\ canvas[k].col = 0
    /\ \E k \in DrawIdx : canvas[k].ord = 31 /\ canvas[k].row = 7 /\ canvas[k].col = 3

\* ------------------------------------------------------------------ C3

\* C3 (as claimed): a finished layout of n > 0 labels has emitted
\* ceil(n / capacity) - 1 page breaks, none after the last label when n is
\* the capacity, and generate_pdf_from_excel's page_num is ceil(n / capacity).
C3_PageCount ==
    (Succeeded /\ ValidGeometry /\ drawFail = {} /\ Len(numbers) > 0) =>
        /\ Cardinality(BreakIdx) = CeilDiv(Len(numbers), Capacity) - 1
        /\ entry = "cli" => page_num = CeilDiv(Len(numbers), Capacity)

\* ------------------------------------------------------------------ C4

\* C4: a label that was not rendered still consumes its slot: the label
\* drawn at the ordinal j right after it has its row and column from j
\* itself, which is the next slot and not the slot of the failed label.
C4_FailedLabelKeepsSlot ==
    ValidGeometry =>
        \A k \in DrawIdx :
            LET d == canvas[k]
                j == d.ord
            IN  (j > 0 /\ (j - 1) \notin DrawnOrds) =>
                    /\ SlotOf(d) = j % Capacity
                    /\ SlotOf(d) = (((j - 1) % Capacity) + 1) % Capacity
                    /\ Capacity > 1 => SlotOf(d) # (j - 1) % Capacity

C4_Witness ==
    /\ Succeeded /\ ValidGeometry /\ Capacity > 1
    /\ 0 \in genFail /\ 0 \notin DrawnOrds
    /\ \E k \in DrawIdx : canvas[k].ord = 1 /\ SlotOf(canvas[k]) = 1

\* ------------------------------------------------------------------ C5

\* C5 (as claimed): a label whose image generation fails still gets a
\* placement at its slot, so a finished layout has emitted as many
\* placements as there are input labels.
C5_PlacementForEveryLabel ==
    (Succeeded /\ ValidGeometry /\ drawFail = {}) => Cardinality(DrawIdx) = Len(numbers)

\* ------------------------------------------------------------------ C6

\* C6 (as claimed): a layout whose column or row count is zero or negative
\* fails with an error before any placement is drawn and leaves no PDF.
C6_InvalidGeometryRejected ==
    (run = 1 /\ ~ValidGeometry /\ pc \in {"layout", "done"} /\ numbers # <<>>) =>
        /\ DrawIdx = {}
        /\ Done => (outcome \in {"500", "ZeroDivisionError"} /\ ~pdf_written)

\* ------------------------------------------------------------------ C7

\* The input holds no label: an empty list, or a column A without a number.
InputEmpty ==
    IF entry = "call" THEN numbers = <<>>
    ELSE file_exists /\ \A k \in 1..Len(sheet) : sheet[k].kind # "int"

\* C7 (as claimed): an empty sequence of labels is laid out successfully to
\* an empty result, at generate_pdf_from_numbers and at both entry points.
C7_EmptyInputSucceeds ==
    (Done /\ InputEmpty /\ ValidGeometry) => (Succeeded /\ canvas = <<>>)

\* C7 (amended): generate_pdf_from_numbers lays an empty sequence out to an
\* empty result and returns; /api/generate-pdf and generate_pdf_from_excel
\* never lay an empty sequence out: they end with the "no numbers" error
\* (HTTP 400, or the early return) and write no PDF.
C7_EmptyInputAmended ==
    (Done /\ InputEmpty /\ ValidGeometry) =>
        /\ canvas = <<>>
        /\ ~temp_dir
        /\ entry = "call" => outcome = "returned"
        /\ entry = "api" => (outcome = "400" /\ ~pdf_written)
        /\ entry = "cli" => (outcome = "no numbers" /\ ~pdf_written)

C7_Witness ==
    /\ Done /\ ValidGeometry /\ InputEmpty
    /\ entry = "api" /\ Len(sheet) > 0
    /\ outcome = "400"

\* ------------------------------------------------------------------ C8

\* The labels as given: the list itself, or the integers of column A in row
\* order.
InputLabels ==
    IF entry = "call" THEN numbers
    ELSE LET ints == SelectSeq(sheet, LAMBDA c : c.kind = "int")
         IN  [k \in 1..Len(ints) |-> ints[k].v]

\* C8: labels are drawn in input order, unsorted and with duplicates kept:
\* the label drawn at ordinal k is the k-th input label, ordinals are drawn
\* in increasing order, and when nothing fails every input label, each
\* duplicate included, is drawn once.
C8_InputOrderKept ==
    /\ \A k \in DrawIdx :
           /\ canvas[k].ord < Len(InputLabels)
           /\ canvas[k].label = InputLabels[canvas[k].ord + 1]
    /\ \A k1, k2 \in DrawIdx : k1 < k2 => canvas[k1].ord < canvas[k2].ord
    /\ (Succeeded /\ genFail = {} /\ drawFail = {}) =>
           DrawnOrds = 0..(Len(InputLabels) - 1)

C8_Witness ==
    /\ Succeeded /\ entry = "api"
    /\ InputLabels = <<2, 1, 2>>
    /\ Cardinality(DrawIdx) = 3
    /\ \A k \in DrawIdx : canvas[k].label = InputLabels[canvas[k].ord + 1]

\* ------------------------------------------------------------------ C9

\* C9: a second invocation with the same input and the same per-label
\* failures ends as the first did, with the same sequence of page breaks and
\* placements; nothing the first invocation left behind changes it.
C9_SameInputSameLayout ==
    (run = 2 /\ Done /\ genFail = prev.genFail /\ drawFail = prev.drawFail) =>
        /\ canvas = prev.canvas
        /\ outcome = prev.outcome
        /\ pdf_written = prev.pdf_written

C9_Witness ==
    /\ run = 2 /\ Succeeded
    /\ genFail # {} /\ genFail = prev.genFail /\ drawFail = prev.drawFail
    /\ BreakIdx # {} /\ DrawIdx # {}
    /\ canvas = prev.canvas

\* ----------------------------------------------------------------- C10

\* C10: the image rectangle of a label drawn at (row, col) has
\* x = margin_x + col*cell_width + 0.05*cell_width,
\* y = page_height - margin_y - (row+1)*cell_height + 0.05*cell_height,
\* width 0.9*cell_width and height 0.75*cell_height (each equation
\* multiplied through by its denominators); so row 0 is the topmost row and
\* the image is horizontally centred in its cell.
C10_ImageRectangle ==
    \A k \in DrawIdx :
        LET d == canvas[k]
        IN  /\ 20 * cols * d.x
                 = (20 * cols * margin_x) + (((20 * d.col) + 1) * available_width)
            /\ 20 * rows * d.y
                 = (20 * rows * (page_height - margin_y))
                     - (((20 * (d.row + 1)) - 1) * available_height)
            /\ 10 * cols * d.w = 9 * available_width
            /\ 4 * rows * d.h = 3 * available_height
            /\ ValidGeometry =>
                   /\ d.row = 0 =>
                          /\ d.y + d.h <= page_height - margin_y
                          /\ rows * d.y > (rows * (page_height - margin_y)) - available_height
                   /\ \A k2 \in DrawIdx : canvas[k2].row > d.row => canvas[k2].y < d.y
                   /\ cols * ((2 * d.x) + d.w)
                          = (2 * cols * margin_x) + (((2 * d.col) + 1) * available_width)

C10_Witness ==
    /\ Succeeded /\ ValidGeometry
    /\ \E k1, k2 \in DrawIdx :
           /\ canvas[k1].page = canvas[k2].page
           /\ canvas[k1].row = 0 /\ canvas[k2].row = 1 /\ canvas[k2].col = 1
           /\ canvas[k1].y > canvas[k2].y
           /\ canvas[k2].x > canvas[k1].x

\* ----------------------------------------------------------------- C11

\* The image rectangles of two placements are apart: one lies strictly to
\* the left of, to the right of, below or above the other.
Disjoint(d, e) ==
    \/ d.x + d.w < e.x
    \/ e.x + e.w < d.x
    \/ d.y + d.h < e.y
    \/ e.y + e.h < d.y

\* C11 (as claimed): any two distinct labels drawn on the same physical
\* page have image rectangles with a positive gap between them, for every
\* valid geometry, number of labels and pattern of failed labels.
C11_RectanglesDisjoint ==
    ValidGeometry =>
        \A k1, k2 \in DrawIdx :
            (k1 # k2 /\ canvas[k1].page = canvas[k2].page) =>
                Disjoint(canvas[k1], canvas[k2])

\* The same when every label has its image: the page break at each
\* boundary is then emitted.
C11_DisjointWithoutFailures ==
    (ValidGeometry /\ genFail = {} /\ prev.genFail = {}) =>
        \A k1, k2 \in DrawIdx :
            (k1 # k2 /\ canvas[k1].page = canvas[k2].page) =>
                Disjoint(canvas[k1], canvas[k2])

\* ----------------------------------------------------------------- C12

\* The top and bottom edges of the cell in row r, from the bottom-left
\* origin of the canvas.
CellTop(r) == page_height - margin_y - (r * cell_height)
CellBottom(r) == CellTop(r) - cell_height

\* C12 (as claimed): the image is anchored toward the top of its cell: its
\* top edge is 5% of the cell height below the top edge of the cell, and the
\* space the 75% height leaves free lies below the image.
C12_ImageAnchoredToTop ==
    ValidGeometry =>
        \A k \in DrawIdx :
            LET d == canvas[k]
            IN  /\ 20 * (CellTop(d.row) - (d.y + d.h)) = cell_height
                /\ d.y - CellBottom(d.row) >= CellTop(d.row) - (d.y + d.h)

\* C12 (amended): the image is anchored toward the bottom of its cell: its
\* bottom edge is 5% of the cell height above the bottom edge of the cell,
\* its top edge 20% of the cell height below the top edge of the cell, so
\* the space the 75% height leaves free lies above the image.
C12_ImageAnchoredToBottom ==
    ValidGeometry =>
        \A k \in DrawIdx :
            LET d == canvas[k]
            IN  /\ 20 * (d.y - CellBottom(d.row)) = cell_height
                /\ 5 * (CellTop(d.row) - (d.y + d.h)) = cell_height
                /\ CellTop(d.row) - (d.y + d.h) > d.y - CellBottom(d.row)

C12_Witness ==
    /\ Succeeded /\ ValidGeometry /\ rows > 1
    /\ \E k \in DrawIdx :
           /\ canvas[k].row = 1
           /\ canvas[k].y > CellBottom(1)
           /\ canvas[k].y + canvas[k].h < CellTop(1)

\* ----------------------------------------------------------------- C13

\* C13: the caption baseline of every drawn label is 15% of the cell height
\* below the bottom edge of its image: text_y = y - 0.15*cell_height
\* (multiplied through by the denominators).
C13_CaptionBaseline ==
    \A k \in DrawIdx :
        LET d == canvas[k]
        IN  /\ 20 * rows * (d.y - d.text_y) = 3 * available_height
            /\ ValidGeometry => d.text_y < d.y

C13_Witness ==
    /\ Succeeded /\ ValidGeometry
    /\ \E k \in DrawIdx :
           /\ canvas[k].row = 1
           /\ canvas[k].text_y < canvas[k].y
           /\ 20 * (canvas[k].y - canvas[k].text_y) = 3 * cell_height

\* ----------------------------------------------------------------- C14

\* The layout has computed its cell size.
CellSizeComputed == pc = "layout" \/ (Done /\ outcome \in {"200", "returned"})

\* C14: the cell is (page_width - 2*margin_x) / cols wide and
\* (page_height - 2*margin_y) / rows high; with the A4 page (210 x 297 mm),
\* margins of 12 and 15 mm and the default 4 x 8 grid it is 46.5 mm by
\* 33.375 mm, and every image drawn has 0.9 and 0.75 of that size.
C14_CellSize ==
    (CellSizeComputed /\ ValidGeometry) =>
        /\ cols * cell_width = (A4WidthMM * mm) - (2 * 12 * mm)
        /\ rows * cell_height = (A4HeightMM * mm) - (2 * 15 * mm)
        /\ (cols = DefaultCols /\ rows = DefaultRows) =>
               /\ 2 * cell_width = 93 * mm
               /\ 8 * cell_height = 267 * mm
        /\ \A k \in DrawIdx :
               /\ 10 * canvas[k].w = 9 * cell_width
               /\ 4 * canvas[k].h = 3 * cell_height

C14_Witness ==
    /\ Succeeded /\ cols = 4 /\ rows = 8
    /\ 2 * cell_width = 93 * mm
    /\ 8 * cell_height = 267 * mm
    /\ \E k \in DrawIdx : 20 * canvas[k].w = 837 * mm

\* ----------------------------------------------------------------- C15

\* A pass of the layout loop moves from ordinal idx to idx + 1, the loop
\* starts at ordinal 0, and the layout ends only after the last ordinal,
\* by saving.
LayoutStep ==
    /\ (pc = "images" /\ pc' = "layout") => idx' = 0
    /\ (pc = "layout" /\ pc' = "layout") => (idx < Len(numbers) /\ idx' = idx + 1)
    /\ (pc = "layout" /\ pc' = "done") =>
           (idx = Len(numbers) /\ outcome' \in {"200", "returned"} /\ ~temp_dir')

\* C15: a layout invocation over a finite sequence of labels terminates:
\* once started it ends, and its placement loop visits each ordinal once,
\* in increasing order, and then finishes by saving, whatever labels fail.
C15_LayoutTerminates ==
    /\ [][LayoutStep]_vars
    /\ (pc = "images") ~> Done
    /\ (pc = "layout") ~> Succeeded

C15_Witness ==
    /\ Succeeded /\ run = 1
    /\ Len(numbers) = MaxLen /\ idx = Len(numbers)
    /\ genFail # {}
    /\ DrawIdx # {}

\* ----------------------------------------------------------------- C16

UpdateAppended ==
    LET old == outputs_before[request.path.name]
        new == outputs[request.path.name]
        m == MaxRow(old)
        k == request.count.v
    IN  /\ Len(new.colA) >= Len(old.colA)
        /\ \A r \in 1..Len(old.colA) : new.colA[r] = old.colA[r]
        /\ \A i \in 1..k : new.colA[m + i] = IntCell(request.start + (i - 1))
        /\ MaxRow(new) = m + k
        /\ response.added <= k
        /\ response.lo = request.start
        /\ response.hi = request.start + k - 1
        /\ (response.hi - response.lo) + 1 = MaxRow(new) - m
        /\ \A n \in FileNames \ {request.path.name} : outputs[n] = outputs_before[n]

\* C17 (as claimed): POST /api/update-excel only appends, for a workbook
\* whose last used row is m and a request with any count k.
C17_UpdateOnlyAppends ==
    (request.op = "update" /\ response.status = "success") => UpdateAppended

\* The same for the requests whose count is not negative.
C17_AppendsForCountFromZero ==
    (request.op = "update" /\ response.status = "success" /\ request.count.v >= 0) =>
        UpdateAppended

\* ----------------------------------------------------------------- C18

\* C18: POST /api/rename-and-download never overwrites a file: when the
\* target name exists in the outputs folder and differs from the source
\* path, the request is answered with status 'error' and HTTP 400 and the
\* folder is as it was; and a rename request changes or removes no file
\* but the source of a successful rename.
C18_RenameNeverOverwrites ==
    request.op = "rename" =>
        LET old_file_path == request.path
            target == OutputPath(WithExtension(request.name))
        IN  /\ (/\ request.name # NoName
                /\ Exists(outputs_before, old_file_path)
                /\ Exists(outputs_before, target)
                /\ target # old_file_path) =>
                   /\ response.status = "error" /\ response.code = 400
                   /\ outputs = outputs_before
            /\ \A n \in FileNames :
                   (outputs_before[n].exists /\ outputs[n] # outputs_before[n]) =>
                       (response.status = "success" /\ n = old_file_path.name)

C18_Witness ==
    /\ request.op = "rename" /\ served = MaxRequests
    /\ Exists(outputs_before, request.path)
    /\ Exists(outputs_before, OutputPath(WithExtension(request.name)))
    /\ request.path.name # WithExtension(request.name)
    /\ response.code = 400
    /\ outputs = outputs_before

\* ----------------------------------------------------------------- C19

\* C19 (as claimed): the timestamp in the stored file name avoids
\* conflicts: any two uploads accepted are stored under distinct names, and
\* the stored file of every UploadedFile record still holds what was
\* uploaded with that record.
C19_StoredNamesDistinct ==
    /\ \A f, g \in files : f.id # g.id => f.filename # g.filename
    /\ \A f \in files : disk[f.filename].id = f.id

\* ----------------------------------------------------------------- C20

\* The last request was made by the owner of the record f.
ByOwnerOf(f) == dash_request.user # Anonymous /\ dash_request.user = f.user_id

\* C20 (as claimed): a file is viewed or deleted only on behalf of its
\* owner: what view_dashboard renders is a file of the requesting user, and
\* a request removes the record or the stored file of a record only when
\* the requesting user is logged in and is the record's owner.
C20_OnlyOwnerViewsOrDeletes ==
    /\ (dash_request.op = "view" /\ dash_response.result = "rendered") =>
           /\ \E f \in Found(dash_request.file_id) : ByOwnerOf(f)
           /\ dash_response.content.user_id = dash_request.user
    /\ dash_request.op \in {"view", "delete"} =>
           \A f \in dash_before.files :
               (f \notin files \/ disk[f.filename] # dash_before.disk[f.filename]) =>
                   ByOwnerOf(f)

\* C20 for the requests that found every record with a stored file of its
\* own, holding what was uploaded with it.
C20_OnlyOwnerWhenFilesApart ==
    (\A f \in dash_before.files : dash_before.disk[f.filename].id = f.id) =>
        C20_OnlyOwnerViewsOrDeletes

\* The part of C20 about the records: a record is rendered from or removed
\* only by its owner.
C20_RecordsOnlyByOwner ==
    /\ (dash_request.op = "view" /\ dash_response.result = "rendered") =>
           \E f \in Found(dash_request.file_id) : ByOwnerOf(f)
    /\ dash_request.op \in {"view", "delete"} =>
           \A f \in dash_before.files : f \notin files => ByOwnerOf(f)

\* ----------------------------------------------------------------- C21

\* The last request was a signup that made an account.
Created == users # auth_before.users

\* What signup asks before it makes an account, from the request and the
\* accounts it found.
SignupAccepted ==
    /\ auth_request.route = "signup" /\ auth_request.method = "POST"
    /\ auth_request.username # "" /\ auth_request.email # ""
    /\ auth_request.password # ""
    /\ auth_request.password = auth_request.confirm_password
    /\ Len(auth_request.password) >= 6
    /\ \A u \in auth_before.users :
           u.username # auth_request.username /\ u.email # auth_request.email

\* C21: no two accounts share a username or an email; a signup makes an
\* account only from a request with username, email and password, the
\* password repeated and of at least 6 characters, the username and the
\* email not registered; every other request leaves the accounts as they
\* were.
C21_SignupKeepsAccountsUnique ==
    /\ \A u, v \in users :
           (u.username = v.username \/ u.email = v.email) => u = v
    /\ Created => SignupAccepted
    /\ Created =>
           \E u \in users : /\ users = auth_before.users \cup {u}
                            /\ u.username = auth_request.username
                            /\ u.email = auth_request.email

\* Two accounts exist, and the last signup was refused for a name or an
\* email already registered.
C21_Witness ==
    /\ Cardinality(users) = 2
    /\ auth_request.route = "signup" /\ auth_request.method = "POST"
    /\ auth_request.password = "secret"
    /\ auth_request.confirm_password = "secret"
    /\ auth_request.username # "" /\ auth_request.email # ""
    /\ ~Created

\* ----------------------------------------------------------------- C22

\* The last request to auth.py was a POST to login that named an account
\* and had its password check succeed, and the session is that account's.
LoginSucceeded ==
    /\ auth_request.route = "login" /\ auth_request.method = "POST"
    /\ auth_request.checked
    /\ \E u \in auth_before.users :
           u.username = auth_request.username /\ current_user = u.id

\* The handlers behind login_required served only authenticated sessions.
ProtectedOnlyForAuthenticated ==
    /\ (auth_request.route \in {"logout", "dashboard_home"}
            /\ auth_response # "unauthorized")
           => auth_before.current_user # Anonymous
    /\ (dash_request.op \in {"upload", "view", "delete"}
            /\ dash_request.user = Anonymous)
           => /\ dash_response.result = "login"
              /\ files = dash_before.files /\ disk = dash_before.disk

\* An authenticated session that asks for login or signup is sent to the
\* dashboard, with the accounts and the session as they were.
AuthenticatedVisitorRedirected ==
    (auth_request.route \in {"login", "signup"}
         /\ auth_before.current_user # Anonymous)
        => /\ auth_response = "dashboard"
           /\ users = auth_before.users
           /\ current_user = auth_before.current_user

\* C22: the session gets a user only by a POST to login whose username
\* names an account and whose password check succeeds; after logout the
\* session is anonymous; the handlers behind login_required act only for an
\* authenticated session; an authenticated session asking for login or
\* signup is redirected to the dashboard, no account made and the session
\* kept.
C22_SessionProtocol ==
    /\ [][(current_user' # current_user /\ current_user' # Anonymous)
              => LoginSucceeded']_vars
    /\ [](auth_request.route = "logout" => current_user = Anonymous)
    /\ []ProtectedOnlyForAuthenticated
    /\ []AuthenticatedVisitorRedirected

\* A session that logged in has uploaded a file and then sent a signup form
\* that an anonymous session would have had accepted.
C22_Witness ==
    /\ current_user # Anonymous
    /\ dash_response.result = "uploaded"
    /\ auth_request.route = "signup" /\ auth_request.method = "POST"
    /\ FormValid(auth_request.username, auth_request.email,
                 auth_request.password, auth_request.confirm_password)
    /\ ~Registered(users, auth_request.username, auth_request.email)
    /\ auth_response = "dashboard"

\* ----------------------------------------------------------------- C23

\* No function runs: every function called has finished.
AllFinished == running = "none" /\ op_pc = "idle"

====
